---------------------------- MODULE Spec2Model ----------------------------
(***************************************************************************)
(* Pipeline bot: chat(user_message) turns a free-text message into one of  *)
(* four actions (update / add / list / clarify) and runs it against a      *)
(* spreadsheet addressed by column letter and row number.                  *)
(*                                                                         *)
(* Text is modelled as a sequence of one-character strings, so that        *)
(* lower(), substring containment and header normalisation are computed    *)
(* character by character as the Python code computes them.                *)
(*                                                                         *)
(* The spreadsheet is a grid (a sequence of rows of fourteen cells) whose  *)
(* row 1 holds the column titles.  The code never writes row 1; the sheet  *)
(* is set up with it before the bot is run.  Cell values are text that the *)
(* sheet's as-typed interpretation stores unchanged.                       *)
(***************************************************************************)
EXTENDS Integers, Sequences, FiniteSets, TLC

VARIABLES
    sheet,      \* the spreadsheet grid; sheet[1] is the header row
    pc,         \* per invocation: "idle", "execute", "writing", "done"
    action,     \* per invocation: action_data returned by process_command
    row,        \* per invocation: update_deal's local `row`
    todo,       \* per invocation: items of updates.items() not yet visited
    result,     \* per invocation: what chat returned, or that it raised
    pre,        \* per invocation: the sheet when execute_action began, and the
                \* date it read (0 if it read none)
    listed,     \* per invocation: the list list_deals returned
    base,       \* the grid as the header and the appended rows made it
    log,        \* every cell write the store accepted, in order
    calls       \* number of chat invocations started

vars == <<sheet, pc, action, row, todo, result, pre, listed, base, log, calls>>

---------------------------------------------------------------------------
(* Bounds of the model. *)

MaxRows == 2        \* data rows the sheet may hold
MaxCalls == 2       \* chat invocations in one behaviour

Procs == {1, 2}     \* invocations that may be in flight (two front doors)
Single == {1}       \* the one invocation of the single-threaded schedule

---------------------------------------------------------------------------
(* Text. *)

UpperToLower ==
    "A" :> "a" @@ "B" :> "b" @@ "C" :> "c" @@ "D" :> "d" @@ "E" :> "e" @@
    "F" :> "f" @@ "G" :> "g" @@ "H" :> "h" @@ "I" :> "i" @@ "J" :> "j" @@
    "K" :> "k" @@ "L" :> "l" @@ "M" :> "m" @@ "N" :> "n" @@ "O" :> "o" @@
    "P" :> "p" @@ "Q" :> "q" @@ "R" :> "r" @@ "S" :> "s" @@ "T" :> "t" @@
    "U" :> "u" @@ "V" :> "v" @@ "W" :> "w" @@ "X" :> "x" @@ "Y" :> "y" @@
    "Z" :> "z"

\* str.lower()
lower(s) ==
    [i \in 1..Len(s) |-> IF s[i] \in DOMAIN UpperToLower THEN UpperToLower[s[i]] ELSE s[i]]

\* Python's `needle in hay` on text
Contains(needle, hay) ==
    \E i \in 0..(Len(hay) - Len(needle)) :
        \A k \in 1..Len(needle) : hay[i + k] = needle[k]

\* str.replace(' ', '_')
replace_space(s) == [i \in 1..Len(s) |-> IF s[i] = " " THEN "_" ELSE s[i]]

Empty == <<>>               \* ''
None == <<"None">>          \* Python's None (no text has a cell this long)

Range(f) == {f[i] : i \in DOMAIN f}

---------------------------------------------------------------------------
(* Field names and the column mapping. *)

company_name == <<"c","o","m","p","a","n","y","_","n","a","m","e">>
contact_name == <<"c","o","n","t","a","c","t","_","n","a","m","e">>
contact_email == <<"c","o","n","t","a","c","t","_","e","m","a","i","l">>
contact_phone == <<"c","o","n","t","a","c","t","_","p","h","o","n","e">>
project_description == <<"p","r","o","j","e","c","t","_","d","e","s","c","r","i","p","t","i","o","n">>
date_entered == <<"d","a","t","e","_","e","n","t","e","r","e","d">>
stage == <<"s","t","a","g","e">>
stage_date == <<"s","t","a","g","e","_","d","a","t","e">>
notes == <<"n","o","t","e","s">>
estimated_mrr == <<"e","s","t","i","m","a","t","e","d","_","m","r","r">>
priority == <<"p","r","i","o","r","i","t","y">>
next_action_date == <<"n","e","x","t","_","a","c","t","i","o","n","_","d","a","t","e">>
next_action == <<"n","e","x","t","_","a","c","t","i","o","n">>
lost_reason == <<"l","o","s","t","_","r","e","a","s","o","n">>
row_number == <<"r","o","w","_","n","u","m","b","e","r">>

\* COLUMNS: field name -> column letter
COLUMNS ==
    company_name :> "A" @@ contact_name :> "B" @@ contact_email :> "C" @@
    contact_phone :> "D" @@ project_description :> "E" @@ date_entered :> "F" @@
    stage :> "G" @@ stage_date :> "H" @@ notes :> "I" @@ estimated_mrr :> "J" @@
    priority :> "K" @@ next_action_date :> "L" @@ next_action :> "M" @@
    lost_reason :> "N"

\* the field list add_deal walks, in column order
FieldOrder ==
    << company_name, contact_name, contact_email, contact_phone,
       project_description, date_entered, stage, stage_date,
       notes, estimated_mrr, priority, next_action_date,
       next_action, lost_reason >>

\* the sheet's range A:N, as the store reads column letters
Letters == << "A","B","C","D","E","F","G","H","I","J","K","L","M","N" >>

Width == Len(Letters)

ColumnIndex(letter) == CHOOSE j \in 1..Width : Letters[j] = letter

\* row 1 of the sheet: the column titles as typed
HeaderRow ==
    << <<"C","o","m","p","a","n","y"," ","N","a","m","e">>,
       <<"C","o","n","t","a","c","t"," ","N","a","m","e">>,
       <<"C","o","n","t","a","c","t"," ","E","m","a","i","l">>,
       <<"C","o","n","t","a","c","t"," ","P","h","o","n","e">>,
       <<"P","r","o","j","e","c","t"," ","D","e","s","c","r","i","p","t","i","o","n">>,
       <<"D","a","t","e"," ","E","n","t","e","r","e","d">>,
       <<"S","t","a","g","e">>,
       <<"S","t","a","g","e"," ","D","a","t","e">>,
       <<"N","o","t","e","s">>,
       <<"E","s","t","i","m","a","t","e","d"," ","M","R","R">>,
       <<"P","r","i","o","r","i","t","y">>,
       <<"N","e","x","t"," ","A","c","t","i","o","n"," ","D","a","t","e">>,
       <<"N","e","x","t"," ","A","c","t","i","o","n">>,
       <<"L","o","s","t"," ","R","e","a","s","o","n">> >>

---------------------------------------------------------------------------
(* The store: get-range-as-rows, set-single-cell, append-row. *)

BlankRow == [j \in 1..Width |-> Empty]

\* a row as the API returns it: trailing empty cells are left out
TrimTrailing(r) ==
    LET used == {j \in 1..Len(r) : r[j] # Empty}
        last == IF used = {} THEN 0 ELSE CHOOSE j \in used : \A k \in used : k <= j
    IN  SubSeq(r, 1, last)

\* sheets.values().get(range='A:N').execute().get('values', [])
values_get(grid) == [i \in 1..Len(grid) |-> TrimTrailing(grid[i])]

\* (mutant) the row number is taken as an index among the data rows
values_update_data_row(grid, cell, value) ==
    [grid EXCEPT ![cell[2] - 1][ColumnIndex(cell[1])] = value]

\* sheets.values().update(range=cell, body={'values': [[value]]}).execute()
\* cell is <<column letter, row number>>
values_update(grid, cell, value) ==
    LET c == ColumnIndex(cell[1])
        r == cell[2]
        tall == IF r <= Len(grid) THEN grid
                ELSE grid \o [i \in 1..(r - Len(grid)) |-> BlankRow]
    IN  [tall EXCEPT ![r][c] = value]

\* (mutant) the new row is inserted under the header instead of at the end
values_append_top(grid, new_row) ==
    <<grid[1]>>
    \o << [j \in 1..Width |-> IF j <= Len(new_row) THEN new_row[j] ELSE Empty] >>
    \o SubSeq(grid, 2, Len(grid))

\* sheets.values().append(range='A:N', body={'values': [new_row]}).execute()
values_append(grid, new_row) ==
    Append(grid, [j \in 1..Width |-> IF j <= Len(new_row) THEN new_row[j] ELSE Empty])

---------------------------------------------------------------------------
(* pipeline.py *)

normalize_header(header) == replace_space(lower(header))

\* dict.get(key, default)
Get(d, key, default) == IF key \in DOMAIN d THEN d[key] ELSE default

\* one deal: {'row_number': i} plus one entry per header, short rows padded
\* (a header met twice keeps the later column's cell)
deal_of(headers, cells, i) ==
    [key \in {row_number} \cup Range(headers) |->
        LET at == {j \in 1..Len(headers) : headers[j] = key}
        IN  IF at = {} THEN i
            ELSE LET j == CHOOSE j \in at : \A k \in at : k <= j
                 IN  IF j <= Len(cells) THEN cells[j] ELSE Empty]

get_all_deals(grid) ==
    LET values == values_get(grid)
    IN  IF values = <<>> THEN <<>>
        ELSE LET headers == [j \in 1..Len(values[1]) |-> normalize_header(values[1][j])]
             IN  [k \in 1..(Len(values) - 1) |-> deal_of(headers, values[k + 1], k + 1)]

\* (mutant) with no match the first deal is taken
find_deal_fallback(grid, company) ==
    LET deals == get_all_deals(grid)
        hits == {k \in 1..Len(deals) :
                    Contains(lower(company), lower(Get(deals[k], company_name, Empty)))}
    IN  IF deals = <<>> THEN None
        ELSE IF hits = {} THEN deals[1]
        ELSE deals[CHOOSE k \in hits : \A m \in hits : k <= m]

\* (mutant) the last match is taken
find_deal_last(grid, company) ==
    LET deals == get_all_deals(grid)
        hits == {k \in 1..Len(deals) :
                    Contains(lower(company), lower(Get(deals[k], company_name, Empty)))}
    IN  IF hits = {} THEN None
        ELSE deals[CHOOSE k \in hits : \A m \in hits : m <= k]

\* the first deal whose company_name contains the query, or None
find_deal(grid, company) ==
    LET deals == get_all_deals(grid)
        company_lower == lower(company)
        hits == {k \in 1..Len(deals) :
                    Contains(company_lower, lower(Get(deals[k], company_name, Empty)))}
    IN  IF hits = {} THEN None
        ELSE deals[CHOOSE k \in hits : \A m \in hits : k <= m]

RECURSIVE SelectSeq2(_, _)
SelectSeq2(s, keep) ==
    IF s = <<>> THEN <<>>
    ELSE IF keep[1] THEN <<Head(s)>> \o SelectSeq2(Tail(s), Tail(keep))
         ELSE SelectSeq2(Tail(s), Tail(keep))

\* `if stage:` -- None and '' are both falsy
Truthy(x) == x # None /\ x # Empty

\* (mutant) the stage is compared as typed
list_deals_exact(grid, stage_filter) ==
    LET deals == get_all_deals(grid)
    IN  IF Truthy(stage_filter)
        THEN SelectSeq2(deals,
                 [k \in 1..Len(deals) |-> Get(deals[k], stage, Empty) = stage_filter])
        ELSE deals

list_deals(grid, stage_filter) ==
    LET deals == get_all_deals(grid)
    IN  IF Truthy(stage_filter)
        THEN SelectSeq2(deals,
                 [k \in 1..Len(deals) |->
                     lower(Get(deals[k], stage, Empty)) = lower(stage_filter)])
        ELSE deals

\* the row add_deal builds, in column order
add_deal_row(deal_data) == [j \in 1..Len(FieldOrder) |-> Get(deal_data, FieldOrder[j], Empty)]

---------------------------------------------------------------------------
(* bot.py *)

\* date.today().isoformat(): the day count as ISO text
DayDigit == <<"1", "2", "3", "4", "5", "6", "7", "8", "9">>

isoformat(d) == <<"2","0","2","4","-","0","6","-","0", DayDigit[d + 1]>>

\* dict.setdefault(key, value)
SetDefault(d, key, value) == IF key \in DOMAIN d THEN d ELSE d @@ (key :> value)

\* (mutant) stage_date is left to the caller
with_defaults_no_stage_date(deal_data, day) ==
    SetDefault(SetDefault(deal_data,
        date_entered, isoformat(day)),
        stage, <<"L","e","a","d">>)

\* execute_action's default filling for "add"
with_defaults(deal_data, day) ==
    SetDefault(SetDefault(SetDefault(deal_data,
        date_entered, isoformat(day)),
        stage_date, isoformat(day)),
        stage, <<"L","e","a","d">>)

\* one line of the formatted list: company, stage and, if present, next action
list_line(d) ==
    << Get(d, company_name, None), Get(d, stage, None) >>
    \o (IF Truthy(Get(d, next_action, None)) THEN << Get(d, next_action, None) >> ELSE << >>)

\* the text execute_action returns for a list of deals
list_result(deals) ==
    IF deals = <<>>
    THEN [raised |-> FALSE, kind |-> "No deals found.", arg |-> <<>>]
    ELSE [raised |-> FALSE, kind |-> "Found", arg |-> [k \in 1..Len(deals) |-> list_line(deals[k])]]

---------------------------------------------------------------------------
(* What the language model may answer, and the text in the model's cells. *)

Acme == <<"A","c","m","e">>
BigAcme == <<"B","i","g"," ","A","c","m","e">>
acme == <<"a","c","m","e">>
BIG == <<"B","I","G">>
Zed == <<"Z","e","d">>
Lead == <<"L","e","a","d">>
LEAD == <<"L","E","A","D">>
Discovery == <<"D","i","s","c","o","v","e","r","y">>
discovery == <<"d","i","s","c","o","v","e","r","y">>
Won == <<"W","o","n">>
June1 == <<"2","0","2","4","-","0","6","-","0","1">>
Memo == <<"o","k">>
owner == <<"o","w","n","e","r">>        \* a field outside COLUMNS

\* updates mappings, as the ordered items of the dict
UpdatesInputs ==
    { << <<stage, Discovery>>, <<stage_date, June1>> >>,
      << <<notes, Memo>>, <<owner, Zed>>, <<stage, Won>> >>,
      << <<owner, Zed>> >>,
      << <<company_name, Zed>>, <<notes, Empty>> >>,
      << >> }

DealInputs ==
    { company_name :> Acme @@ stage :> Lead,
      company_name :> BigAcme @@ stage :> discovery @@ stage_date :> June1
          @@ next_action :> Memo,
      notes :> Memo }

NoAction == [action |-> "", company |-> None, updates |-> <<>>, deal |-> <<>>,
             filter_stage |-> None, message |-> None]

Update(c, u) == [NoAction EXCEPT !.action = "update", !.company = c, !.updates = u]

ActionInputs ==
       { Update(acme, u) : u \in UpdatesInputs }
  \cup { Update(c, << <<stage, Discovery>>, <<stage_date, June1>> >>) : c \in {BIG, Zed} }
  \cup { Update(None, << <<notes, Memo>> >>) }
  \cup { [NoAction EXCEPT !.action = "add", !.deal = d] : d \in DealInputs }
  \cup { [NoAction EXCEPT !.action = "list", !.filter_stage = f] :
            f \in {None, Empty, discovery, LEAD} }
  \cup { [NoAction EXCEPT !.action = "clarify", !.message = Memo] }
  \cup { [NoAction EXCEPT !.action = "delete"] }

\* what two invocations racing on one sheet are asked to do
ConcInputs ==
    { Update(acme, << <<stage, Discovery>>, <<stage_date, June1>> >>),
      Update(acme, << <<notes, Memo>>, <<owner, Zed>>, <<stage, Won>> >>),
      Update(acme, << <<company_name, Zed>> >>),
      [NoAction EXCEPT !.action = "add", !.deal = company_name :> Acme @@ stage :> Lead] }

\* the dates date.today() may return
Days == {0, 1}

\* the sheets the bot may be started on: no deal yet, one deal entered by
\* hand whose trailing cells were never filled, or two deals
InitialSheets ==
    { << HeaderRow >>,
      << HeaderRow, [BlankRow EXCEPT ![1] = Acme, ![7] = Lead] >>,
      << HeaderRow, [BlankRow EXCEPT ![1] = Acme, ![7] = Lead, ![9] = Memo],
                    [BlankRow EXCEPT ![1] = BigAcme, ![7] = Discovery, ![13] = Memo] >> }

---------------------------------------------------------------------------
(* State machine. *)

\* chat's outcome: the text it returned (kind and what the text names), or
\* the exception that left it
NoResult == [raised |-> FALSE, kind |-> "", arg |-> <<>>]
Text(kind, arg) == [raised |-> FALSE, kind |-> kind, arg |-> arg]
Raised(kind) == [raised |-> TRUE, kind |-> kind, arg |-> <<>>]
NoPre == [sheet |-> <<>>, today |-> 0]

Init ==
    /\ sheet \in InitialSheets
    /\ base = sheet
    /\ pc = [p \in Procs |-> "idle"]
    /\ action = [p \in Procs |-> NoAction]
    /\ row = [p \in Procs |-> 0]
    /\ todo = [p \in Procs |-> <<>>]
    /\ result = [p \in Procs |-> NoResult]
    /\ pre = [p \in Procs |-> NoPre]
    /\ listed = [p \in Procs |-> <<>>]
    /\ log = <<>>
    /\ calls = 0

\* chat(), lines 128-132: the context read and process_command.  A call
\* starts with fresh locals, whether it is the first or follows a reply.
ChatBegin(p, inputs) ==
    /\ pc[p] \in {"idle", "done"}
    /\ calls < MaxCalls
    /\ calls' = calls + 1
    /\ row' = [row EXCEPT ![p] = 0]
    /\ todo' = [todo EXCEPT ![p] = <<>>]
    /\ pre' = [pre EXCEPT ![p] = NoPre]
    /\ listed' = [listed EXCEPT ![p] = <<>>]
    /\ \/ \* get_all_deals() fails outside the try block
          /\ pc' = [pc EXCEPT ![p] = "done"]
          /\ result' = [result EXCEPT ![p] = Raised("BackendUnavailable")]
          /\ action' = [action EXCEPT ![p] = NoAction]
       \/ \* json.loads fails on the model's reply
          /\ pc' = [pc EXCEPT ![p] = "done"]
          /\ result' = [result EXCEPT ![p] = Text("Error parsing response", "JSONDecodeError")]
          /\ action' = [action EXCEPT ![p] = NoAction]
       \/ \* the model call fails
          /\ pc' = [pc EXCEPT ![p] = "done"]
          /\ result' = [result EXCEPT ![p] = Text("Error", "ModelUnavailable")]
          /\ action' = [action EXCEPT ![p] = NoAction]
       \/ \E a \in inputs :
          /\ pc' = [pc EXCEPT ![p] = "execute"]
          /\ action' = [action EXCEPT ![p] = a]
          /\ result' = [result EXCEPT ![p] = NoResult]
    /\ UNCHANGED <<sheet, base, log>>

\* chat() returns with r
Finish(p, r) ==
    /\ pc' = [pc EXCEPT ![p] = "done"]
    /\ result' = [result EXCEPT ![p] = r]

\* update_deal, lines 111-117 and the return at 133 when there is nothing to write
UpdateBegin(p) ==
    \E deal \in {find_deal(sheet, action[p].company)} :
    LET a == action[p]
    IN  /\ UNCHANGED <<sheet, base, log, listed>>
        /\ \/ \* the read inside find_deal fails
              /\ Finish(p, Text("Error", "BackendUnavailable"))
              /\ UNCHANGED <<row, todo>>
           \/ \* None.lower() raises
              /\ a.company = None
              /\ Finish(p, Text("Error", "AttributeError"))
              /\ UNCHANGED <<row, todo>>
           \/ /\ a.company # None
              /\ deal = None
              /\ Finish(p, Text("Could not find a deal for", a.company))
              /\ UNCHANGED <<row, todo>>
           \/ /\ a.company # None
              /\ deal # None
              /\ row' = [row EXCEPT ![p] = deal[row_number]]
              /\ todo' = [todo EXCEPT ![p] = a.updates]
              /\ IF a.updates = <<>>
                 THEN Finish(p, Text("Updated", <<a.company, a.updates>>))
                 ELSE /\ pc' = [pc EXCEPT ![p] = "writing"]
                      /\ UNCHANGED result

\* add_deal behind execute_action's defaults
AddDeal(p, day) ==
    \E deal_data \in {with_defaults(action[p].deal, day)} :
        /\ UNCHANGED <<row, todo, listed, log>>
        /\ \/ \* the append fails
              /\ Finish(p, Text("Error", "BackendUnavailable"))
              /\ UNCHANGED <<sheet, base>>
           \/ /\ Len(sheet) - 1 < MaxRows
              /\ sheet' = values_append(sheet, add_deal_row(deal_data))
              /\ base' = values_append(base, add_deal_row(deal_data))
              /\ Finish(p, Text("Added new deal", Get(deal_data, company_name, None)))

ListDeals(p) ==
    \E deals \in {list_deals(sheet, action[p].filter_stage)} :
        /\ UNCHANGED <<sheet, base, log, row, todo>>
        /\ \/ \* the read fails
              /\ Finish(p, Text("Error", "BackendUnavailable"))
              /\ UNCHANGED listed
           \/ /\ listed' = [listed EXCEPT ![p] = deals]
              /\ Finish(p, list_result(deals))

\* execute_action: dispatch on action_data.get("action"); only "add" reads
\* the clock
Execute(p) ==
    /\ pc[p] = "execute"
    /\ UNCHANGED <<action, calls>>
    /\ CASE action[p].action = "update" ->
                /\ pre' = [pre EXCEPT ![p] = [sheet |-> sheet, today |-> 0]]
                /\ UpdateBegin(p)
         [] action[p].action = "add" ->
                \E day \in Days :
                    /\ pre' = [pre EXCEPT ![p] = [sheet |-> sheet, today |-> day]]
                    /\ AddDeal(p, day)
         [] action[p].action = "list" ->
                /\ pre' = [pre EXCEPT ![p] = [sheet |-> sheet, today |-> 0]]
                /\ ListDeals(p)
         [] action[p].action = "clarify" ->
                /\ pre' = [pre EXCEPT ![p] = [sheet |-> sheet, today |-> 0]]
                /\ Finish(p, Text("Question", action[p].message))
                /\ UNCHANGED <<sheet, base, log, row, todo, listed>>
         [] OTHER ->
                /\ pre' = [pre EXCEPT ![p] = [sheet |-> sheet, today |-> 0]]
                /\ Finish(p, Text("Unknown action", action[p].action))
                /\ UNCHANGED <<sheet, base, log, row, todo, listed>>

\* update_deal, lines 119-133: one pass of the loop over updates.items().
\* The item has been visited; after the last one update_deal returns.
Visited(p) ==
    /\ todo' = [todo EXCEPT ![p] = Tail(todo[p])]
    /\ IF Tail(todo[p]) = <<>>
       THEN Finish(p, Text("Updated", <<action[p].company, action[p].updates>>))
       ELSE UNCHANGED <<pc, result>>

\* (mutant) a field that is not a column is looked up all the same: KeyError
RejectUnknown(p) ==
    /\ Head(todo[p])[1] \notin DOMAIN COLUMNS
    /\ Finish(p, Text("Error", "KeyError"))
    /\ UNCHANGED <<sheet, log, todo>>

\* `continue`: the field is not a column
SkipUnknown(p) ==
    /\ Head(todo[p])[1] \notin DOMAIN COLUMNS
    /\ Visited(p)
    /\ UNCHANGED <<sheet, log>>

\* (mutant) the row read by find_deal is written back with the one cell changed
WriteStaleRow(p) ==
    LET field == Head(todo[p])[1]
        value == Head(todo[p])[2]
        c == ColumnIndex(COLUMNS[field])
        old == pre[p].sheet[row[p]]
    IN  /\ field \in DOMAIN COLUMNS
        /\ sheet' = [sheet EXCEPT ![row[p]] = [old EXCEPT ![c] = value]]
        /\ log' = Append(log, [by |-> p, n |-> calls, row |-> row[p],
                                field |-> field, value |-> value])
        /\ Visited(p)

\* the cell write succeeds
WriteOk(p) ==
    LET field == Head(todo[p])[1]
        value == Head(todo[p])[2]
    IN  /\ field \in DOMAIN COLUMNS
        /\ sheet' = values_update(sheet, <<COLUMNS[field], row[p]>>, value)
        /\ log' = Append(log, [by |-> p, n |-> calls, row |-> row[p],
                                field |-> field, value |-> value])
        /\ Visited(p)

\* (mutant) a failed write undoes the writes the call made before it
WriteFailUndo(p) ==
    /\ Head(todo[p])[1] \in DOMAIN COLUMNS
    /\ Finish(p, Text("Error", "BackendUnavailable"))
    /\ sheet' = pre[p].sheet
    /\ UNCHANGED <<log, todo>>

\* the cell write fails; the exception reaches chat's handler
WriteFail(p) ==
    /\ Head(todo[p])[1] \in DOMAIN COLUMNS
    /\ Finish(p, Text("Error", "BackendUnavailable"))
    /\ UNCHANGED <<sheet, log, todo>>

WriteCell(p) ==
    /\ pc[p] = "writing"
    /\ UNCHANGED <<action, row, pre, listed, base, calls>>
    /\ \/ SkipUnknown(p)
       \/ WriteOk(p)
       \/ WriteFail(p)

\* One message at a time (the documented schedule): only one invocation runs.
Next ==
    \/ \E p \in Single : ChatBegin(p, ActionInputs)
    \/ \E p \in Single : Execute(p)
    \/ \E p \in Single : WriteCell(p)

Spec == Init /\ [][Next]_vars

\* Two deployed front doors on one sheet: invocations interleave at every
\* store call.
NextConc ==
    \/ \E p \in Procs : ChatBegin(p, ConcInputs)
    \/ \E p \in Procs : Execute(p)
    \/ \E p \in Procs : WriteCell(p)

SpecConc == Init /\ [][NextConc]_vars

---------------------------------------------------------------------------
(* Vocabulary of the properties, read off the grid itself. *)

\* the invocation of the one-message-at-a-time schedule
Seq1 == CHOOSE p \in Single : TRUE

Col(f) == CHOOSE j \in 1..Len(FieldOrder) : FieldOrder[j] = f
Known(f) == f \in Range(FieldOrder)
HasUnknown(items) == \E i \in 1..Len(items) : ~Known(items[i][1])

\* the data rows whose company cell contains the query, case-insensitively
Matches(grid, company) ==
    {r \in 2..Len(grid) : Contains(lower(company), lower(grid[r][Col(company_name)]))}

FirstMatch(grid, company) ==
    CHOOSE r \in Matches(grid, company) : \A m \in Matches(grid, company) : r <= m

\* grid with the known fields among items written into row r
Applied(grid, r, items) ==
    [grid EXCEPT ![r] =
        [j \in 1..Width |->
            LET at == {i \in 1..Len(items) : Known(items[i][1]) /\ Col(items[i][1]) = j}
            IN  IF at = {} THEN grid[r][j]
                ELSE items[CHOOSE i \in at : \A k \in at : k <= i][2]]]

IsUpdate(p) == action[p].action = "update" /\ action[p].company # None
Done(p) == pc[p] = "done"
Kind(p) == result[p].kind
StoreFailed(p) == Kind(p) = "Error" /\ result[p].arg = "BackendUnavailable"

\* the items of this call that update_deal has visited: all but todo
VisitedItems(p) == SubSeq(action[p].updates, 1, Len(action[p].updates) - Len(todo[p]))

---------------------------------------------------------------------------
(* C1 *)

\* C1 as stated: an update naming a field outside the fourteen-field set
\* (on a company that matches a row) fails with UnknownField and leaves every
\* cell of the store as it was.
C1_UnknownFieldRejected ==
    (/\ Done(Seq1) /\ IsUpdate(Seq1)
     /\ HasUnknown(action[Seq1].updates)
     /\ Matches(pre[Seq1].sheet, action[Seq1].company) # {}
     /\ ~StoreFailed(Seq1))
    => (Kind(Seq1) = "UnknownField" /\ sheet = pre[Seq1].sheet)

\* C1 (amended): an update naming a field outside the fourteen-field set does
\* not fail.  The unknown field is skipped without a cell write, the known
\* fields of the same mapping are written to the matched row, and the result
\* is the ordinary success summary; the store is left as it was only in the
\* cells no known field of the mapping names.
C1_UnknownFieldSkipped ==
    (/\ Done(Seq1) /\ IsUpdate(Seq1)
     /\ HasUnknown(action[Seq1].updates)
     /\ Matches(pre[Seq1].sheet, action[Seq1].company) # {}
     /\ ~StoreFailed(Seq1))
    => /\ Kind(Seq1) = "Updated"
       /\ sheet = Applied(pre[Seq1].sheet,
                          FirstMatch(pre[Seq1].sheet, action[Seq1].company),
                          action[Seq1].updates)
       /\ \A i \in 1..Len(log) : Known(log[i].field)

\* an update with a known and an unknown field has returned its summary
C1_Witness ==
    /\ Done(Seq1) /\ IsUpdate(Seq1)
    /\ Kind(Seq1) = "Updated"
    /\ HasUnknown(action[Seq1].updates)
    /\ \E i \in 1..Len(action[Seq1].updates) : Known(action[Seq1].updates[i][1])
    /\ sheet # pre[Seq1].sheet

---------------------------------------------------------------------------
(* C2 *)

\* C2: chat never raises to its caller; every failure of a step it performs
\* comes back as text.
C2_ChatNeverRaises == \A p \in Procs : ~result[p].raised

---------------------------------------------------------------------------
(* C3 *)

\* C3: an update whose company is contained in no row's company_name writes
\* no cell (the store after the call is the store before it) and, unless the
\* read itself failed, returns the not-found text.
C3_NotFoundWritesNothing ==
    (/\ Done(Seq1) /\ IsUpdate(Seq1)
     /\ Matches(pre[Seq1].sheet, action[Seq1].company) = {})
    => /\ sheet = pre[Seq1].sheet
       /\ Kind(Seq1) = "Could not find a deal for" \/ StoreFailed(Seq1)
       /\ \A i \in 1..Len(log) : log[i].n # calls

\* an update for a company no row holds has returned, on a sheet with deals
C3_Witness ==
    /\ Done(Seq1) /\ IsUpdate(Seq1)
    /\ Kind(Seq1) = "Could not find a deal for"
    /\ action[Seq1].updates # <<>>
    /\ Len(pre[Seq1].sheet) > 1

---------------------------------------------------------------------------
(* C4 *)

\* what the fetch before and the fetch after an update of row m are to show
C4_Fetches(before, after, items, m) ==
    /\ Len(after) = Len(before)
    /\ \A k \in 1..Len(after) :
         /\ after[k][row_number] = before[k][row_number]
         /\ \A f \in Range(FieldOrder) :
              IF after[k][row_number] = m /\ \E i \in 1..Len(items) : items[i][1] = f
              THEN \E i \in 1..Len(items) : items[i] = <<f, after[k][f]>>
              ELSE after[k][f] = before[k][f]

\* C4: after a successful update whose fields are all known, a re-fetch shows
\* each updated field of the matched row equal to the supplied value, every
\* other field of that row unchanged, and every other row, the header row
\* included, unchanged.
C4_UpdateFrame ==
    (/\ Done(Seq1) /\ IsUpdate(Seq1)
     /\ Kind(Seq1) = "Updated"
     /\ ~HasUnknown(action[Seq1].updates))
    => /\ sheet[1] = pre[Seq1].sheet[1]
       /\ C4_Fetches(get_all_deals(pre[Seq1].sheet), get_all_deals(sheet),
                     action[Seq1].updates,
                     FirstMatch(pre[Seq1].sheet, action[Seq1].company))

\* stage and stage_date of one deal among two have been updated
C4_Witness ==
    /\ Done(Seq1) /\ IsUpdate(Seq1)
    /\ Kind(Seq1) = "Updated"
    /\ action[Seq1].updates = << <<stage, Discovery>>, <<stage_date, June1>> >>
    /\ Len(sheet) = 3
    /\ sheet # pre[Seq1].sheet

---------------------------------------------------------------------------
(* C5 *)

\* C5: an add executed on a store with no deal leaves a store whose fetch
\* holds exactly one deal, with row_number 2, whose date_entered and
\* stage_date are the current date where the action gave none and whose stage
\* is Lead where the action gave none.
C5_AddToEmpty ==
    (/\ Done(Seq1) /\ action[Seq1].action = "add"
     /\ Kind(Seq1) = "Added new deal"
     /\ Len(pre[Seq1].sheet) = 1)
    => LET deals == get_all_deals(sheet)
           given == action[Seq1].deal
           now == isoformat(pre[Seq1].today)
       IN  /\ Len(deals) = 1
           /\ deals[1][row_number] = 2
           /\ deals[1][date_entered] = Get(given, date_entered, now)
           /\ deals[1][stage_date] = Get(given, stage_date, now)
           /\ deals[1][stage] = Get(given, stage, Lead)
           /\ \A f \in DOMAIN given : deals[1][f] = given[f]

\* a deal with no date of its own has been added to a store with no deal
C5_Witness ==
    /\ Done(Seq1) /\ action[Seq1].action = "add"
    /\ Kind(Seq1) = "Added new deal"
    /\ Len(pre[Seq1].sheet) = 1
    /\ stage_date \notin DOMAIN action[Seq1].deal
    /\ pre[Seq1].today = 1

---------------------------------------------------------------------------
(* C6 *)

\* what the fetches before and after one step are to show
C6_Fetches(before, after) ==
    /\ Len(after) >= Len(before)
    /\ \A k \in 1..Len(after) : after[k][row_number] = k + 1
    /\ \A k \in 1..Len(before) :
         \A f \in Range(FieldOrder) :
            after[k][f] # before[k][f] =>
                \E p \in Procs :
                    /\ pc[p] = "writing"
                    /\ row[p] = before[k][row_number]
                    /\ Head(todo[p]) = <<f, after[k][f]>>
    /\ Len(after) > Len(before) =>
         /\ Len(after) = Len(before) + 1
         /\ after[Len(after)][row_number] = Len(sheet) + 1
         /\ \E p \in Procs : pc[p] = "execute" /\ action[p].action = "add"

C6_Step ==
    \A fetch \in {<<get_all_deals(sheet), get_all_deals(sheet')>>} :
        C6_Fetches(fetch[1], fetch[2])

\* C6: row_number is a stable identity.  In every step every deal fetched
\* before the step is fetched after it with the same row_number and the same
\* content, except a cell the step's update wrote; a step that adds a deal
\* gives it the row_number last row + 1; no deal has row_number 1.
C6_RowNumberStable == [][C6_Step]_vars

\* a deal has been added after an update wrote to an earlier deal
C6_Witness ==
    /\ Done(Seq1) /\ action[Seq1].action = "add"
    /\ Kind(Seq1) = "Added new deal"
    /\ Len(pre[Seq1].sheet) >= 2
    /\ log # <<>>

---------------------------------------------------------------------------
(* C7 *)

\* C7: the lookup finds a deal exactly when some row's company_name contains
\* the query case-insensitively, and then it is the matching row with the
\* smallest row_number that the update writes to.
C7_FirstMatch ==
    (/\ Done(Seq1) /\ IsUpdate(Seq1)
     /\ Kind(Seq1) \in {"Updated", "Could not find a deal for"})
    => LET hits == Matches(pre[Seq1].sheet, action[Seq1].company)
           m == FirstMatch(pre[Seq1].sheet, action[Seq1].company)
       IN  /\ Kind(Seq1) = "Could not find a deal for" <=> hits = {}
           /\ Kind(Seq1) = "Updated" =>
                /\ row[Seq1] = m
                /\ \A r \in 1..Len(sheet) : r # m => sheet[r] = pre[Seq1].sheet[r]
                /\ sheet[m] = Applied(pre[Seq1].sheet, m, action[Seq1].updates)[m]

\* a lower-case query that two rows contain, one of them not at its start,
\* has led to a write
C7_Witness ==
    /\ Done(Seq1) /\ IsUpdate(Seq1)
    /\ Kind(Seq1) = "Updated"
    /\ action[Seq1].company = acme
    /\ Cardinality(Matches(pre[Seq1].sheet, acme)) = 2
    /\ sheet # pre[Seq1].sheet

---------------------------------------------------------------------------
(* C8 *)

\* the rows list is to return: all data rows, or those whose stage equals the
\* filter case-insensitively
Wanted(grid, f) ==
    IF f = None \/ f = Empty THEN 2..Len(grid)
    ELSE {r \in 2..Len(grid) : lower(grid[r][Col(stage)]) = lower(f)}

\* C8: list without a filter returns every data row in row order; with a
\* stage filter it returns exactly the rows whose stage equals the filter
\* case-insensitively; the executor answers "No deals found." exactly when
\* that list is empty; and list writes nothing.
C8_List ==
    (/\ Done(Seq1) /\ action[Seq1].action = "list"
     /\ ~StoreFailed(Seq1))
    => LET want == Wanted(sheet, action[Seq1].filter_stage)
           got == listed[Seq1]
       IN  /\ {got[k][row_number] : k \in 1..Len(got)} = want
           /\ \A k \in 1..Len(got) :
                /\ k > 1 => got[k - 1][row_number] < got[k][row_number]
                /\ \A f \in Range(FieldOrder) :
                     got[k][f] = sheet[got[k][row_number]][Col(f)]
           /\ Kind(Seq1) = "No deals found." <=> got = <<>>
           /\ Kind(Seq1) \in {"No deals found.", "Found"}
           /\ sheet = pre[Seq1].sheet

\* the filter "discovery" has picked the one deal of two at stage "Discovery"
C8_Witness ==
    /\ Done(Seq1) /\ action[Seq1].action = "list"
    /\ action[Seq1].filter_stage = discovery
    /\ Len(sheet) = 3
    /\ Len(listed[Seq1]) = 1
    /\ listed[Seq1][1][stage] = Discovery

---------------------------------------------------------------------------
(* C9 *)

\* C9: when a cell write of an update fails, the cells the call wrote before
\* it keep their new values, the fields that follow are not written, and chat
\* returns an error text, not the success summary.
C9_NoRollback ==
    (/\ Done(Seq1) /\ IsUpdate(Seq1)
     /\ row[Seq1] # 0
     /\ todo[Seq1] # <<>>)
    => /\ sheet = Applied(pre[Seq1].sheet, row[Seq1], VisitedItems(Seq1))
       /\ Kind(Seq1) = "Error"
       /\ ~result[Seq1].raised

\* the second write of an update has failed after the first one changed a cell
C9_Witness ==
    /\ Done(Seq1) /\ IsUpdate(Seq1)
    /\ Kind(Seq1) = "Error"
    /\ row[Seq1] # 0
    /\ Len(todo[Seq1]) = 1
    /\ Len(action[Seq1].updates) = 2
    /\ sheet # pre[Seq1].sheet

---------------------------------------------------------------------------
(* C10 *)

\* the rows as created, with the logged writes laid over them in the order
\* they were issued: each cell holds its last write, or what it was created with
RECURSIVE Replay(_, _)
Replay(grid, writes) ==
    IF writes = <<>> THEN grid
    ELSE Replay([grid EXCEPT ![Head(writes).row][Col(Head(writes).field)] = Head(writes).value],
                Tail(writes))

\* the writes the log holds for cell (r, j)
WritesTo(r, j) == {i \in 1..Len(log) : log[i].row = r /\ Col(log[i].field) = j}

\* C10: invocations interleaving at cell-write granularity are last-write-wins
\* per cell.  Every cell holds the value of the last write issued to it, or,
\* if none was, the value it was created with; so a cell one invocation alone
\* wrote holds that invocation's value, and no write lands outside the row
\* its invocation resolved, whatever rows are appended meanwhile.
C10_LastWriteWins ==
    /\ sheet = Replay(base, log)
    /\ \A p \in Procs :
          (Done(p) /\ IsUpdate(p) /\ Kind(p) = "Updated") =>
             \A i \in 1..Len(action[p].updates) :
                LET f == action[p].updates[i][1]
                IN  (/\ Known(f)
                     /\ \A k \in WritesTo(row[p], Col(f)) : log[k].by = p)
                    => sheet[row[p]][Col(f)] = action[p].updates[i][2]

\* two updates of one deal have interleaved their writes, both wrote its
\* stage, and both have returned
C10_Witness ==
    /\ \A p \in Procs : Done(p) /\ IsUpdate(p) /\ Kind(p) = "Updated"
    /\ row[1] = row[2]
    /\ \E i, j, k \in 1..Len(log) :
          /\ i < j /\ j < k
          /\ log[i].by = log[k].by /\ log[i].by # log[j].by
    /\ \E i, j \in 1..Len(log) :
          log[i].by # log[j].by /\ log[i].field = stage /\ log[j].field = stage

===========================================================================
